---- MODULE Spec2Model ----
(***************************************************************************)
(* A model of the intel8080 emulator core (intel8080.hpp / intel8080.cpp). *)
(*                                                                         *)
(* The CPU object is modelled field by field.  Every C++ member function   *)
(* is an operator from a CPU record to a CPU record; the public calls      *)
(* (load, interrupt, step and the register accessors) are the actions.     *)
(*                                                                         *)
(* Conventions                                                             *)
(*  - the build is GCC on a little-endian host (typeof, __builtin_parity,  *)
(*    the 16-bit pointer casts over ram); a register pair is the           *)
(*    union `reg`, kept here as its two bytes <<pair[0], pair[1]>>, and    *)
(*    `full` is read over them as the host reads it;                       *)
(*  - the cpu object and `ram` have static storage in every host of the    *)
(*    repository, so members without an initialiser start at zero and      *)
(*    ram starts all zero; `ram` is kept sparse: a cell that is not in     *)
(*    its domain holds 0;                                                  *)
(*  - cell 65536 is the byte that follows the 65536-byte array; the        *)
(*    pointer casts reach it when the address is 0xFFFF.  Its first read   *)
(*    yields a value chosen by the environment.                            *)
(***************************************************************************)
EXTENDS Integers, Sequences, FiniteSets, TLC

(* ------------------------------ bounds --------------------------------- *)

\* number of public calls (load, interrupt, step, flags) the host makes
MaxCalls == 5
\* number of accessor writes in a run of the accessor specification
MaxWrites == 2

(* --------------------------- program constants ------------------------- *)

\* enum flag
sign == 7
zero == 6
auxCarry == 4
parity == 2
carry == 0

\* constexpr int RAM_SIZE
RAM_SIZE == 65536

VARIABLES
    PSW, BC, DE, HL,        \* reg _PSW, _BC, _DE, _HL : <<pair[0], pair[1]>>
    SP, PC,                 \* std::uint16_t SP, PC
    ram,                    \* std::uint8_t* ram (sparse; absent cell = 0)
    interruptsEnabled,      \* bool interruptsEnabled
    interruptPending,       \* bool interruptPending
    interruptVector,        \* std::uint8_t interruptVector
    halted,                 \* bool halted
    io,                     \* the calls made to the two port handlers
    lastCall,               \* which public call produced this state
    lastArg,                \* the argument of that call
    pre,                    \* the CPU record before that call
    frame,                  \* the last subroutine entry (CALL/RST) made
    pushed,                 \* the last PUSH executed
    overrun,                \* the latch interrupt() last overwrote
    menu,                   \* which instruction menu the host loads from
    nCalls, nWrites

cpuVars == <<PSW, BC, DE, HL, SP, PC, ram, interruptsEnabled,
             interruptPending, interruptVector, halted, io>>
vars == <<PSW, BC, DE, HL, SP, PC, ram, interruptsEnabled, interruptPending,
          interruptVector, halted, io, lastCall, lastArg, pre, frame, pushed,
          overrun, menu, nCalls, nWrites>>

(* ------------------------- free helper functions ----------------------- *)

\* template<T> T lowBitsOf(n, numBits): n % (1U << numBits)
lowBitsOf(n, numBits) == n % (2 ^ numBits)

\* highBitsOf<std::uint8_t>(n, numBits): n / (1U << (8 - numBits))
highBitsOf8(n, numBits) == n \div (2 ^ (8 - numBits))

\* highBitsOf<std::uint16_t>(n, numBits): n / (1U << (16 - numBits))
highBitsOf16(n, numBits) == n \div (2 ^ (16 - numBits))

\* twosComp<std::uint8_t>(n): ~n + 1, converted back to 8 bits
twosComp(n) == (256 - n) % 256

\* swapBytes(n): highBitsOf(n, 8) + lowBitsOf(n, 8) * (1U << 8)
swapBytes(n) == highBitsOf16(n, 8) + lowBitsOf(n, 8) * 256

\* bit `pos` of n
bitAt(n, pos) == (n \div (2 ^ pos)) % 2

\* the 8-bit &, | and ^ of C++, bit by bit
bitAnd(a, b) ==
    LET f(k) == (2 ^ k) * (bitAt(a, k) * bitAt(b, k))
    IN  f(0) + f(1) + f(2) + f(3) + f(4) + f(5) + f(6) + f(7)
bitOr(a, b) ==
    LET f(k) == (2 ^ k) * (IF bitAt(a, k) + bitAt(b, k) > 0 THEN 1 ELSE 0)
    IN  f(0) + f(1) + f(2) + f(3) + f(4) + f(5) + f(6) + f(7)
bitXor(a, b) ==
    LET f(k) == (2 ^ k) * ((bitAt(a, k) + bitAt(b, k)) % 2)
    IN  f(0) + f(1) + f(2) + f(3) + f(4) + f(5) + f(6) + f(7)

\* __builtin_parity(x): 1 when x has an odd number of 1 bits
builtinParity(x) ==
    (bitAt(x, 0) + bitAt(x, 1) + bitAt(x, 2) + bitAt(x, 3)
     + bitAt(x, 4) + bitAt(x, 5) + bitAt(x, 6) + bitAt(x, 7)) % 2

(* ------------------------------ union reg ------------------------------ *)

\* reg::high(): return pair[0]
high(r) == r[1]

\* reg::low(): return pair[1]
low(r) == r[2]

\* reading reg::full on the little-endian host: pair[0] is its low byte
full(r) == r[1] + 256 * r[2]

\* storing v into reg::full on the little-endian host
asReg(v) == <<v % 256, v \div 256>>

(* -------------------------------- memory ------------------------------- *)

\* ram[a], a in 0..65535 (65536 once it has been touched)
rd(m, a) == IF a \in DOMAIN m THEN m[a] ELSE 0

\* ram[a] = v; a zero cell inside the array is dropped from the sparse map
wr(m, a, v) ==
    IF v = 0 /\ a < RAM_SIZE
    THEN [x \in (DOMAIN m) \ {a} |-> m[x]]
    ELSE [x \in (DOMAIN m) \cup {a} |-> IF x = a THEN v ELSE m[x]]

\* the 16-bit pointer cast over ram + a, read on the little-endian host
rd16(m, a) == rd(m, a) + 256 * rd(m, a + 1)

\* the 16-bit pointer cast over ram + a, written on the little-endian host
wr16(m, a, v) == wr(wr(m, a, v % 256), a + 1, v \div 256)

\* A 16-bit access at 0xFFFF also reaches the byte after the array.  The
\* first time that byte is read it holds whatever the host placed there.
touch(s, a, env) ==
    IF a = RAM_SIZE - 1 /\ RAM_SIZE \notin DOMAIN s.ram
    THEN [s EXCEPT !.ram = wr(@, RAM_SIZE, env)]
    ELSE s

(* --------------------------- register accessors ------------------------ *)

\* cpu::A(): _PSW.high()
A(s) == high(s.PSW)

\* cpu::flags(): _PSW.low()
flags(s) == low(s.PSW)

\* cpu::B() .. cpu::L()
B(s) == high(s.BC)
C(s) == low(s.BC)
D(s) == high(s.DE)
E(s) == low(s.DE)
H(s) == high(s.HL)
L(s) == low(s.HL)

\* A() = v
setA(s, v) == [s EXCEPT !.PSW[1] = v]

\* flags() = v
setFlags(s, v) == [s EXCEPT !.PSW[2] = v]

\* cpu::atHL(): ram[HL()]
atHL(s) == rd(s.ram, full(s.HL))

\* cpu::getFlag(f): (flags() >> f) % 2
getFlag(s, f) == (flags(s) \div (2 ^ f)) % 2

\* cpu::setFlag(f, condition): flags() |= (1U << f)  or  flags() &= ~(1U << f)
setFlag(s, f, condition) ==
    IF condition
    THEN (IF getFlag(s, f) = 1 THEN s ELSE setFlags(s, flags(s) + 2 ^ f))
    ELSE (IF getFlag(s, f) = 1 THEN setFlags(s, flags(s) - 2 ^ f) ELSE s)

\* The 8-bit operand selected by bits SSS/DDD of an opcode, in the order of
\* the case labels of cpu::exec: B, C, D, E, H, L, atHL(), A.
r8(s, i) ==
    CASE i = 0 -> B(s) [] i = 1 -> C(s) [] i = 2 -> D(s) [] i = 3 -> E(s)
      [] i = 4 -> H(s) [] i = 5 -> L(s) [] i = 6 -> atHL(s) [] i = 7 -> A(s)

setR8(s, i, v) ==
    CASE i = 0 -> [s EXCEPT !.BC[1] = v]
      [] i = 1 -> [s EXCEPT !.BC[2] = v]
      [] i = 2 -> [s EXCEPT !.DE[1] = v]
      [] i = 3 -> [s EXCEPT !.DE[2] = v]
      [] i = 4 -> [s EXCEPT !.HL[1] = v]
      [] i = 5 -> [s EXCEPT !.HL[2] = v]
      [] i = 6 -> [s EXCEPT !.ram = wr(@, full(s.HL), v)]
      [] i = 7 -> setA(s, v)

\* The 16-bit operand selected by bits RP of an opcode: BC(), DE(), HL(),
\* and SP (LXI, INX, DCX, DAD) as the C++ reads it.
r16(s, i) ==
    CASE i = 0 -> full(s.BC) [] i = 1 -> full(s.DE)
      [] i = 2 -> full(s.HL) [] i = 3 -> s.SP

setR16(s, i, v) ==
    CASE i = 0 -> [s EXCEPT !.BC = asReg(v)]
      [] i = 1 -> [s EXCEPT !.DE = asReg(v)]
      [] i = 2 -> [s EXCEPT !.HL = asReg(v)]
      [] i = 3 -> [s EXCEPT !.SP = v]

(* ------------------------------ fetching ------------------------------- *)

\* cpu::get8(): return ram[PC++]
get8(s) ==
    [val |-> rd(s.ram, s.PC), st |-> [s EXCEPT !.PC = (s.PC + 1) % 65536]]

\* cpu::get16(): the 16-bit value at ram + PC; PC += 2
get16(s, env) ==
    LET t == touch(s, s.PC, env)
    IN  [val |-> rd16(t.ram, t.PC), st |-> [t EXCEPT !.PC = (t.PC + 2) % 65536]]

(* -------------------------------- flags -------------------------------- *)

\* cpu::updateFlags that leaves the parity flag alone
updateFlags_noParity(s, result) ==
    setFlag(setFlag(s, sign, result >= 128), zero, result = 0)

\* cpu::updateFlags<std::uint8_t>(result)
updateFlags(s, result) ==
    LET s1 == setFlag(s, sign, result >= 128)
        s2 == setFlag(s1, zero, result = 0)
    IN  setFlag(s2, parity, builtinParity(result) = 0)

\* cpu::updateCarryFlag<std::uint8_t>(a, b): b > max - a
updateCarryFlag(s, a, b) == setFlag(s, carry, b > 255 - a)

\* cpu::updateAuxCarryFlag(a, b)
updateAuxCarryFlag(s, a, b) ==
    setFlag(s, auxCarry, lowBitsOf(b, 4) + lowBitsOf(a, 4) > 15)

(* ------------------------------- kernels ------------------------------- *)

\* cpu::inr that leaves the auxiliary carry alone
inr_noAuxCarry(s, i) ==
    LET new == (r8(s, i) + 1) % 256
    IN  updateFlags(setR8(s, i, new), new)

\* cpu::inr(r8)
inr(s, i) ==
    LET old == r8(s, i)
        s1 == setFlag(s, auxCarry, lowBitsOf(old, 4) = 15)
        new == (old + 1) % 256
    IN  updateFlags(setR8(s1, i, new), new)

\* cpu::dcr(r8)
dcr(s, i) ==
    LET old == r8(s, i)
        s1 == setFlag(s, auxCarry, lowBitsOf(old, 4) = 0)
        new == (old - 1) % 256
    IN  updateFlags(setR8(s1, i, new), new)

\* cpu::dad(r16), r16 being BC(), DE(), HL() or SP
dad(s, i) ==
    LET v == r16(s, i)
        s1 == setFlag(s, carry, v > 65535 - full(s.HL))
    IN  [s1 EXCEPT !.HL = asReg((full(s.HL) + v) % 65536)]

\* cpu::add(r8, withCarry)
add(s, v, withCarry) ==
    LET added == IF withCarry /\ getFlag(s, carry) = 1 THEN (v + 1) % 256 ELSE v
        s1 == updateCarryFlag(s, A(s), added)
        s2 == updateAuxCarryFlag(s1, A(s), added)
        new == (A(s) + added) % 256
    IN  updateFlags(setA(s2, new), new)

\* cpu::sub(r8, withBorrow): add(twosComp(r8), withBorrow)
sub(s, v, withBorrow) == add(s, twosComp(v), withBorrow)

\* cpu::cmp(r8)
cmp(s, v) ==
    LET copyA == A(s)
        s1 == sub(s, v, FALSE)
        s2 == setFlag(s1, carry, getFlag(s1, carry) = 0)
    IN  setA(s2, copyA)

\* cpu::logicAnd(r8)
logicAnd(s, v) ==
    LET new == bitAnd(A(s), v)
    IN  setFlag(updateFlags(setA(s, new), new), carry, FALSE)

\* cpu::logicOr(r8)
logicOr(s, v) ==
    LET new == bitOr(A(s), v)
    IN  setFlag(updateFlags(setA(s, new), new), carry, FALSE)

\* cpu::logicXor(r8)
logicXor(s, v) ==
    LET new == bitXor(A(s), v)
    IN  setFlag(updateFlags(setA(s, new), new), carry, FALSE)

\* The eight ALU operations of opcodes 10FFFSSS and 11FFF110, in the order of
\* the case labels: add, adc, sub, sbb, ana, xra, ora, cmp.
alu(s, f, v) ==
    CASE f = 0 -> add(s, v, FALSE)
      [] f = 1 -> add(s, v, TRUE)
      [] f = 2 -> sub(s, v, FALSE)
      [] f = 3 -> sub(s, v, TRUE)
      [] f = 4 -> logicAnd(s, v)
      [] f = 5 -> logicXor(s, v)
      [] f = 6 -> logicOr(s, v)
      [] f = 7 -> cmp(s, v)

(* -------------------------------- stack -------------------------------- *)

\* cpu::push storing r16 without swapBytes
push_unswapped(s, v) ==
    LET sp == (s.SP - 2) % 65536
    IN  [s EXCEPT !.SP = sp, !.ram = wr16(@, sp, v)]

\* cpu::push(r16): SP -= 2; atSP() = swapBytes(r16)
push(s, v) ==
    LET sp == (s.SP - 2) % 65536
    IN  [s EXCEPT !.SP = sp, !.ram = wr16(@, sp, swapBytes(v))]

\* cpu::pop without its "reset unused flags" tail
popFixFlags_skipped(s) == s

\* the "reset unused flags" tail of cpu::pop
popFixFlags(s) ==
    setFlag(setFlag(setFlag(s, 5, FALSE), 3, FALSE), 1, TRUE)

\* cpu::pop(r16), r16 being BC(), DE(), HL(), PSW() or PC
pop(s, target, env) ==
    LET t == touch(s, s.SP, env)
        v == swapBytes(rd16(t.ram, t.SP))
        s1 == CASE target = "BC" -> [t EXCEPT !.BC = asReg(v)]
                [] target = "DE" -> [t EXCEPT !.DE = asReg(v)]
                [] target = "HL" -> [t EXCEPT !.HL = asReg(v)]
                [] target = "PSW" -> [t EXCEPT !.PSW = asReg(v)]
                [] target = "PC" -> [t EXCEPT !.PC = v]
        s2 == [s1 EXCEPT !.SP = (t.SP + 2) % 65536]
    IN  popFixFlags(s2)

\* cpu::rst that pushes the address it jumps to instead of PC
rst_pushesTarget(s, which) == [push(s, 8 * which) EXCEPT !.PC = 8 * which]

\* cpu::rst(which)
rst(s, which) == [push(s, s.PC) EXCEPT !.PC = 8 * which]

\* cpu::jmp(condition)
jmp(s, condition, env) ==
    IF condition
    THEN LET g == get16(s, env) IN [g.st EXCEPT !.PC = g.val]
    ELSE s

\* cpu::ret(condition)
ret(s, condition, env) == IF condition THEN pop(s, "PC", env) ELSE s

\* cpu::call(condition)
call(s, condition, env) ==
    IF condition
    THEN LET g == get16(push(s, s.PC), env) IN [g.st EXCEPT !.PC = g.val]
    ELSE s

\* The condition selected by bits CCC of Jcc / Ccc / Rcc, in the order of the
\* case labels: NZ, Z, NC, C, PO, PE, P, M.
cond(s, c) ==
    CASE c = 0 -> getFlag(s, zero) = 0
      [] c = 1 -> getFlag(s, zero) = 1
      [] c = 2 -> getFlag(s, carry) = 0
      [] c = 3 -> getFlag(s, carry) = 1
      [] c = 4 -> getFlag(s, parity) = 0
      [] c = 5 -> getFlag(s, parity) = 1
      [] c = 6 -> getFlag(s, sign) = 0
      [] c = 7 -> getFlag(s, sign) = 1

(* ------------------------------- cpu::exec ----------------------------- *)

\* case 0x07: RLC
rlc(s) ==
    LET temp == highBitsOf8(A(s), 1)
        s1 == setFlag(s, carry, temp = 1)
    IN  setA(s1, (((A(s1) * 2) % 256) + temp) % 256)

\* case 0x0f: RRC
rrc(s) ==
    LET temp == lowBitsOf(A(s), 1)
        s1 == setFlag(s, carry, temp = 1)
    IN  setA(s1, ((A(s1) \div 2) + 128 * temp) % 256)

\* case 0x17: RAL
ral(s) ==
    LET s1 == setFlag(s, carry, highBitsOf8(A(s), 1) = 1)
    IN  setA(s1, (A(s1) * 2) % 256)

\* case 0x1f: RAR
rar(s) ==
    LET s1 == setFlag(s, carry, lowBitsOf(A(s), 1) = 1)
    IN  setA(s1, A(s1) \div 2)

\* DAA that applies the low-nibble adjustment whatever A and AC are
daa_alwaysLow(s) ==
    LET s1 == setFlag(setA(s, (A(s) + 6) % 256), auxCarry, TRUE)
        s2 == IF getFlag(s1, carry) = 1 \/ highBitsOf8(A(s1), 4) > 9
              THEN setFlag(setA(s1, (A(s1) + 96) % 256), carry, TRUE)
              ELSE s1
    IN  updateFlags(s2, A(s2))

\* case 0x27: DAA
daa(s) ==
    LET s1 == IF getFlag(s, auxCarry) = 1 \/ lowBitsOf(A(s), 4) > 9
              THEN setFlag(setA(s, (A(s) + 6) % 256), auxCarry, TRUE)
              ELSE s
        s2 == IF getFlag(s1, carry) = 1 \/ highBitsOf8(A(s1), 4) > 9
              THEN setFlag(setA(s1, (A(s1) + 96) % 256), carry, TRUE)
              ELSE s1
    IN  updateFlags(s2, A(s2))

\* case 0xe3: XTHL
xthl(s, env) ==
    LET t == touch(s, s.SP, env)
        temp == swapBytes(rd16(t.ram, t.SP))
    IN  [t EXCEPT !.ram = wr16(@, t.SP, swapBytes(full(t.HL))),
                  !.HL = asReg(temp)]

\* case 0xdb: IN p8; the handler's answer is env
portIn(s, env) ==
    LET g == get8(s)
    IN  [setA(g.st, env) EXCEPT !.io = Append(@, <<"in", g.val>>)]

\* case 0xd3: OUT p8
portOut(s) ==
    LET g == get8(s)
    IN  [g.st EXCEPT !.io = Append(@, <<"out", g.val, A(s)>>)]

\* the pair PUSH pushes: BC(), DE(), HL(), PSW()
pushOperand(s, i) ==
    CASE i = 0 -> full(s.BC) [] i = 1 -> full(s.DE)
      [] i = 2 -> full(s.HL) [] i = 3 -> full(s.PSW)

\* the pair POP pops to
popTarget(i) ==
    CASE i = 0 -> "BC" [] i = 1 -> "DE" [] i = 2 -> "HL" [] i = 3 -> "PSW"

\* the case labels that are NOP (documented and undocumented)
NopOps == {0, 8, 16, 24, 32, 40, 48, 56}
\* RET and CALL, documented and undocumented
RetOps == {201, 217}
CallOps == {205, 221, 237, 253}

\* cpu::exec(instr): the switch.  dst, src, rp are the operand fields of the
\* opcode; the case labels of each group follow them without exception.
exec(s, instr, env) ==
    LET grp == instr \div 64
        dst == (instr \div 8) % 8
        src == instr % 8
        rp  == (instr \div 16) % 4
    IN
    CASE instr \in NopOps -> s
      \* LXI r16, d16
      [] instr \in {1, 17, 33, 49} ->
            LET g == get16(s, env) IN setR16(g.st, rp, g.val)
      \* STAX r16
      [] instr = 2  -> [s EXCEPT !.ram = wr(@, full(s.BC), A(s))]
      [] instr = 18 -> [s EXCEPT !.ram = wr(@, full(s.DE), A(s))]
      \* LDAX r16
      [] instr = 10 -> setA(s, rd(s.ram, full(s.BC)))
      [] instr = 26 -> setA(s, rd(s.ram, full(s.DE)))
      \* SHLD a16: ram[get16()] = HL(), a byte store of a 16-bit value
      [] instr = 34 ->
            LET g == get16(s, env)
            IN  [g.st EXCEPT !.ram = wr(@, g.val, full(s.HL) % 256)]
      \* LHLD a16: HL() = ram[get16()], a 16-bit store of a byte
      [] instr = 42 ->
            LET g == get16(s, env)
            IN  [g.st EXCEPT !.HL = asReg(rd(g.st.ram, g.val))]
      \* STA a16
      [] instr = 50 ->
            LET g == get16(s, env) IN [g.st EXCEPT !.ram = wr(@, g.val, A(s))]
      \* LDA a16
      [] instr = 58 ->
            LET g == get16(s, env) IN setA(g.st, rd(g.st.ram, g.val))
      \* INX r16
      [] instr \in {3, 19, 35, 51} -> setR16(s, rp, (r16(s, rp) + 1) % 65536)
      \* DCX r16
      [] instr \in {11, 27, 43, 59} -> setR16(s, rp, (r16(s, rp) - 1) % 65536)
      \* INR r8, DCR r8, MVI r8
      [] grp = 0 /\ src = 4 -> inr(s, dst)
      [] grp = 0 /\ src = 5 -> dcr(s, dst)
      [] grp = 0 /\ src = 6 -> LET g == get8(s) IN setR8(g.st, dst, g.val)
      [] instr = 7  -> rlc(s)
      [] instr = 15 -> rrc(s)
      [] instr = 23 -> ral(s)
      [] instr = 31 -> rar(s)
      [] instr = 39 -> daa(s)
      \* STC, CMA, CMC
      [] instr = 55 -> setFlag(s, carry, TRUE)
      [] instr = 47 -> setA(s, 255 - A(s))
      [] instr = 63 -> setFlag(s, carry, getFlag(s, carry) = 0)
      \* DAD r16
      [] instr \in {9, 25, 41, 57} -> dad(s, rp)
      \* HLT
      [] instr = 118 -> [s EXCEPT !.halted = TRUE]
      \* MOV r8, r8
      [] grp = 1 /\ instr # 118 -> setR8(s, dst, r8(s, src))
      \* ADD .. CMP r8
      [] grp = 2 -> alu(s, dst, r8(s, src))
      \* ADI .. CPI
      [] grp = 3 /\ src = 6 -> LET g == get8(s) IN alu(g.st, dst, g.val)
      \* XCHG
      [] instr = 235 -> [s EXCEPT !.HL = s.DE, !.DE = s.HL]
      [] instr = 227 -> xthl(s, env)
      \* SPHL, PCHL
      [] instr = 249 -> [s EXCEPT !.SP = swapBytes(full(s.HL))]
      [] instr = 233 -> [s EXCEPT !.PC = swapBytes(full(s.HL))]
      \* DI, EI
      [] instr = 243 -> [s EXCEPT !.interruptsEnabled = FALSE]
      [] instr = 251 -> [s EXCEPT !.interruptsEnabled = TRUE]
      \* PUSH r16, POP r16
      [] instr \in {197, 213, 229, 245} -> push(s, pushOperand(s, rp))
      [] instr \in {193, 209, 225, 241} -> pop(s, popTarget(rp), env)
      \* IN p8, OUT p8
      [] instr = 219 -> portIn(s, env)
      [] instr = 211 -> portOut(s)
      \* RST
      [] grp = 3 /\ src = 7 -> rst(s, dst)
      \* Jcc, JMP
      [] grp = 3 /\ src = 2 -> jmp(s, cond(s, dst), env)
      [] instr = 195 -> jmp(s, TRUE, env)
      \* RET, Rcc
      [] instr \in RetOps -> ret(s, TRUE, env)
      [] grp = 3 /\ src = 0 -> ret(s, cond(s, dst), env)
      \* CALL, Ccc
      [] instr \in CallOps -> call(s, TRUE, env)
      [] grp = 3 /\ src = 4 -> call(s, cond(s, dst), env)
      \* no case label (0xcb): the switch falls through
      [] OTHER -> s

(* ---------------------------- public calls ----------------------------- *)

\* cpu::load(orig, code): ram[orig + i] = byte
load(s, orig, code) ==
    LET RECURSIVE put(_, _)
        put(m, i) == IF i > Len(code) THEN m
                     ELSE put(wr(m, orig + i - 1, code[i]), i + 1)
    IN  [s EXCEPT !.ram = put(s.ram, 1)]

\* cpu::interrupt that also wakes a halted cpu
interrupt_wakes(s, v) ==
    [s EXCEPT !.interruptsEnabled = FALSE,
              !.interruptPending = TRUE,
              !.interruptVector = v,
              !.halted = FALSE]

\* cpu::interrupt that does nothing while interruptsEnabled is false
interrupt_gated(s, v) ==
    IF s.interruptsEnabled
    THEN [s EXCEPT !.interruptsEnabled = FALSE,
                   !.interruptPending = TRUE,
                   !.interruptVector = v]
    ELSE s

\* cpu::interrupt that keeps the opcode already latched while one is pending
interrupt_keepsFirst(s, v) ==
    [s EXCEPT !.interruptsEnabled = FALSE,
              !.interruptPending = TRUE,
              !.interruptVector = IF s.interruptPending THEN @ ELSE v]

\* cpu::interrupt(interruptVector)
interrupt(s, v) ==
    [s EXCEPT !.interruptsEnabled = FALSE,
              !.interruptPending = TRUE,
              !.interruptVector = v]

\* cpu::step without the test of halted
step_ignoresHalt(s, env) ==
    IF s.interruptPending
    THEN [exec(s, s.interruptVector, env) EXCEPT !.interruptPending = FALSE,
                                                 !.halted = FALSE]
    ELSE LET g == get8(s) IN exec(g.st, g.val, env)

\* cpu::step that fetches a byte at PC even when it services an interrupt
step_fetchesOnService(s, env) ==
    IF s.interruptPending
    THEN [exec(get8(s).st, s.interruptVector, env)
             EXCEPT !.interruptPending = FALSE, !.halted = FALSE]
    ELSE IF ~s.halted
         THEN LET g == get8(s) IN exec(g.st, g.val, env)
         ELSE s

\* cpu::step()
step(s, env) ==
    IF s.interruptPending
    THEN [exec(s, s.interruptVector, env) EXCEPT !.interruptPending = FALSE,
                                                 !.halted = FALSE]
    ELSE IF ~s.halted
         THEN LET g == get8(s) IN exec(g.st, g.val, env)
         ELSE s

(* --------------------------- accessor writes --------------------------- *)

\* cpu.PSW() = v, cpu.BC() = v, cpu.DE() = v, cpu.HL() = v: a store to `full`
writePair(s, P, v) ==
    CASE P = "PSW" -> [s EXCEPT !.PSW = asReg(v)]
      [] P = "BC" -> [s EXCEPT !.BC = asReg(v)]
      [] P = "DE" -> [s EXCEPT !.DE = asReg(v)]
      [] P = "HL" -> [s EXCEPT !.HL = asReg(v)]

\* reading cpu.PSW(), cpu.BC(), cpu.DE(), cpu.HL()
readPair(s, P) ==
    CASE P = "PSW" -> full(s.PSW) [] P = "BC" -> full(s.BC)
      [] P = "DE" -> full(s.DE) [] P = "HL" -> full(s.HL)

\* cpu.A() = v, cpu.flags() = v, cpu.B() = v, ... cpu.L() = v
writeReg(s, r, v) ==
    CASE r = "A" -> setA(s, v)
      [] r = "F" -> setFlags(s, v)
      [] r = "B" -> setR8(s, 0, v)
      [] r = "C" -> setR8(s, 1, v)
      [] r = "D" -> setR8(s, 2, v)
      [] r = "E" -> setR8(s, 3, v)
      [] r = "H" -> setR8(s, 4, v)
      [] r = "L" -> setR8(s, 5, v)

\* reading cpu.A(), cpu.flags(), cpu.B(), ... cpu.L()
readReg(s, r) ==
    CASE r = "A" -> A(s) [] r = "F" -> flags(s)
      [] r = "B" -> B(s) [] r = "C" -> C(s)
      [] r = "D" -> D(s) [] r = "E" -> E(s)
      [] r = "H" -> H(s) [] r = "L" -> L(s)

(* ------------------------- the CPU as one record ----------------------- *)

cur ==
    [PSW |-> PSW, BC |-> BC, DE |-> DE, HL |-> HL, SP |-> SP, PC |-> PC,
     ram |-> ram, interruptsEnabled |-> interruptsEnabled,
     interruptPending |-> interruptPending,
     interruptVector |-> interruptVector, halted |-> halted, io |-> io]

Apply(t) ==
    /\ PSW' = t.PSW /\ BC' = t.BC /\ DE' = t.DE /\ HL' = t.HL
    /\ SP' = t.SP /\ PC' = t.PC /\ ram' = t.ram
    /\ interruptsEnabled' = t.interruptsEnabled
    /\ interruptPending' = t.interruptPending
    /\ interruptVector' = t.interruptVector
    /\ halted' = t.halted /\ io' = t.io

\* The object before its constructor body runs: static storage, so every
\* member without an initialiser is zero; ram is the host's zeroed array.
zeroed ==
    [PSW |-> <<0, 0>>, BC |-> <<0, 0>>, DE |-> <<0, 0>>, HL |-> <<0, 0>>,
     SP |-> 0, PC |-> 0, ram |-> [x \in {} |-> 0],
     interruptsEnabled |-> FALSE, interruptPending |-> FALSE,
     interruptVector |-> 0, halted |-> FALSE, io |-> <<>>]

\* cpu::cpu(pih, poh, preAllocatedRam): setFlag(flag(1), true)
construct == setFlag(zeroed, 1, TRUE)

\* What the bytes of an object hold before its constructor runs: zero in
\* static storage, whatever was there before in automatic or dynamic storage
StorageBytes == {0, 255}

\* The object before its constructor body runs, in any storage: the members
\* with a default initialiser (SP, PC, interruptsEnabled, interruptPending)
\* hold it; _PSW, _BC, _DE, _HL, interruptVector and halted hold what the
\* storage held.
raw(g, h) ==
    [zeroed EXCEPT !.PSW = <<g, g>>, !.BC = <<g, g>>, !.DE = <<g, g>>,
                   !.HL = <<g, g>>, !.interruptVector = g, !.halted = h]

\* cpu::cpu(pih, poh, preAllocatedRam) on storage r: setFlag(flag(1), true)
constructOn(r) == setFlag(r, 1, TRUE)

(* ------------------------ what the host feeds in ----------------------- *)

\* Instructions the host loads at PC when the run exercises interrupts,
\* halting and the flag byte.
CtlMenu ==
    { <<251>>,              \* EI
      <<243>>,              \* DI
      <<118>>,              \* HLT
      <<241>>,              \* POP PSW
      <<245>>,              \* PUSH PSW
      <<55>>,               \* STC
      <<61>>,               \* DCR A
      <<175>>,              \* XRA A
      <<62, 255>>,          \* MVI A, 0FFh
      <<198, 1>>,           \* ADI 1
      <<219, 7>>,           \* IN 7
      <<211, 7>>,           \* OUT 7
      <<207>>,              \* RST 1
      <<201>>,              \* RET
      <<49, 255, 255>>,     \* LXI SP, 0FFFFh
      <<195, 255, 255>>,    \* JMP 0FFFFh
      <<205, 16, 0>> }      \* CALL 0010h

\* Jcc and Ccc opcodes
JccOps == {194, 202, 210, 218, 226, 234, 242, 250}
CccOps == {196, 204, 212, 220, 228, 236, 244, 252}

\* The opcodes outside the documented instruction set, and the documented
\* opcode each one stands for: NOP, JMP (0xcb), RET (0xd9), CALL
UndocumentedOps == {8, 16, 24, 32, 40, 48, 56, 203, 217, 221, 237, 253}
documented(op) ==
    CASE op \in {8, 16, 24, 32, 40, 48, 56} -> 0
      [] op = 203 -> 195
      [] op = 217 -> 201
      [] op \in {221, 237, 253} -> 205

\* Instructions the host loads at PC when the run exercises control flow:
\* every jump and call, to 0010h, RET, and the undocumented opcodes.
FlowMenu ==
    { <<op, 16, 0>> : op \in JccOps \cup CccOps \cup CallOps \cup {195, 203} }
    \cup { <<201>>, <<217>> }
    \cup { <<op>> : op \in {8, 16, 24, 32, 40, 48, 56} }

\* Values the host or a program puts in register pairs and on the stack
StackWords == {48879, 4660}         \* 0BEEFh, 1234h
\* Values of PSW(): the constructed one (A = 0, F = 02h) and A5h with F = FFh
PswWords == {512, 65445}
\* Where the programs place the stack
StackTops == {4096}                 \* 1000h

\* Instructions the host loads at PC when the run exercises the pairs and
\* the stack: PUSH rp; POP rp' for all pairs, LXI rp, d16 for all pairs, and
\* LXI SP, s; LXI H, v; PUSH H; POP D.
StackMenu ==
    { <<a, b>> : a \in {197, 213, 229, 245}, b \in {193, 209, 225, 241} }
    \cup { <<op, v % 256, v \div 256>> : op \in {1, 17, 33, 49}, v \in StackWords }
    \cup { <<49, s % 256, s \div 256, 33, v % 256, v \div 256, 229, 209>> :
             s \in StackTops, v \in StackWords }

\* Instructions the host loads at PC when the run exercises the 16-bit
\* moves and the 16-bit addition: SHLD / LHLD at 025Bh (post.cpp), LHLD
\* 0000h, SHLD; LHLD, DAD rp for all pairs, SPHL, PCHL, and LXI H, a before
\* SPHL and PCHL.
PairMenu ==
    { <<34, 91, 2>>, <<42, 91, 2>>, <<42, 0, 0>>, <<34, 91, 2, 42, 91, 2>> }
    \cup { <<op>> : op \in {9, 25, 41, 57, 249, 233} }
    \cup { <<33, a % 256, a \div 256, op>> : a \in StackWords, op \in {249, 233} }

\* Values of A() the arithmetic runs start from: every byte
AluBytes == 0 .. 255
\* Values of B(), the register operand: 0, 1, 0Fh, 80h, FFh
AluOperands == {0, 1, 15, 128, 255}
\* Immediate operands
AluImmediates == {0, 1, 255}
\* Values of flags() the arithmetic runs start from: carry clear, carry set
AluFlags == {2, 3}

\* ADD, ADC, SUB, SBB, ANA, XRA, ORA, CMP with operand B
AluRegOps == {128, 136, 144, 152, 160, 168, 176, 184}
\* ADI, ACI, SUI, SBI, ANI, XRI, ORI, CPI
AluImmOps == {198, 206, 214, 222, 230, 238, 246, 254}

\* Programs the host loads when the run exercises the arithmetic: the
\* accumulator operations on B, INR A, DCR A, DAA, DAA twice, and the
\* immediate forms of add, subtract and compare.
AluMenu ==
    { <<op>> : op \in AluRegOps \cup {60, 61, 39} }
    \cup { <<39, 39>> }
    \cup { <<op, v>> : op \in {198, 206, 214, 222, 254}, v \in AluImmediates }

\* Values of B() and of flags() the single-operand runs start from: 0Fh and
\* 10h; carry and auxiliary carry clear or set
UnaryOperands == {15, 16}
UnaryFlags == {2, 3, 18, 19}

\* INR and DCR of B, A and the byte at HL
IncOps == {4, 60, 52}
DecOps == {5, 61, 53}

\* Programs the host loads when the run exercises the single-operand
\* instructions: INR, DCR, RAL, RAR, DAA, MVI A, 0FFh; INR A, and INR A; DAA.
UnaryMenu ==
    { <<op>> : op \in IncOps \cup DecOps \cup {23, 31, 39} }
    \cup { <<62, 255, 60>>, <<60, 39>> }

\* Where the host puts SP and PC (both public members) before it runs code
\* that is interrupted: SP = 2, 1000h, FFFFh and PC = 0, 0100h
IrqStackTops == {2, 4096, 65535}
IrqSites == {0, 256}

\* Instructions the host loads at PC when the run exercises interrupt
\* service routines: RET, the undocumented RET, NOP-like INR A, EI
IrqMenu == { <<201>>, <<217>>, <<60>>, <<251>> }

Menu(m) ==
    CASE m = "flow" -> FlowMenu
      [] m = "unary" -> UnaryMenu
      [] m = "stack" -> StackMenu
      [] m = "alu" -> AluMenu
      [] m = "pair" -> PairMenu
      [] m = "irq" -> IrqMenu
      [] OTHER -> CtlMenu

\* Bytes the host places at [SP], [SP + 1]
StackData == { <<255, 170>>, <<40, 1>> }

\* Opcodes an interrupting device supplies: NOP, EI, HLT, RST 1, RST 7
IrqOps == {0, 251, 118, 207, 255}

\* What a port handler answers, or what lies after the array
EnvBytes == {0, 105}

\* Flag bytes the host writes through flags(): S Z P C all set, and Z C set
FlagSamples == {199, 67}

\* Values written through the accessors
SampleBytes == {18, 52, 255}
SampleWords == { h * 256 + l : h \in SampleBytes, l \in SampleBytes }

\* The pairs and the registers that have accessors; each pair is named
\* first register, second register as the documentation names them.
PairNames == {"PSW", "BC", "DE", "HL"}
RegNames == {"A", "F", "B", "C", "D", "E", "H", "L"}
firstOf(P) == CASE P = "PSW" -> "A" [] P = "BC" -> "B" [] P = "DE" -> "D" [] P = "HL" -> "H"
secondOf(P) == CASE P = "PSW" -> "F" [] P = "BC" -> "C" [] P = "DE" -> "E" [] P = "HL" -> "L"

(* ------------------------------ bookkeeping ---------------------------- *)

NoFrame == [op |-> -1, src |-> "none", site |-> 0, sp |-> 0, spAfter |-> 0,
            cells |-> <<0, 0>>]

\* no PUSH executed yet
NoPush == [op |-> -1, val |-> 0, sp |-> 0, call |-> 0]

\* no latched opcode overwritten by the latest interrupt()
NoOverrun == <<>>

\* PUSH r16 (documented opcodes) and POP r16
PushOps == {197, 213, 229, 245}
PopOps == {193, 209, 225, 241}

\* The opcode a step() of s executes: the vector, the byte at PC, or nothing
fetched(s) ==
    IF s.interruptPending THEN s.interruptVector
    ELSE IF ~s.halted THEN rd(s.ram, s.PC) ELSE -1

\* Does executing op in s enter a subroutine (CALL, a taken Ccc, RST)?
enters(s, op) ==
    \/ op \in CallOps
    \/ op \in CccOps /\ cond(s, (op \div 8) % 8)
    \/ op >= 192 /\ op % 8 = 7

\* the host starts from the cpu record s0
InitFrom(s0) ==
    /\ PSW = s0.PSW /\ BC = s0.BC /\ DE = s0.DE
    /\ HL = s0.HL /\ SP = s0.SP /\ PC = s0.PC
    /\ ram = s0.ram
    /\ interruptsEnabled = s0.interruptsEnabled
    /\ interruptPending = s0.interruptPending
    /\ interruptVector = s0.interruptVector
    /\ halted = s0.halted /\ io = s0.io
    /\ lastCall = "none" /\ lastArg = <<>> /\ pre = s0
    /\ frame = NoFrame /\ pushed = NoPush /\ overrun = NoOverrun
    /\ nCalls = 0 /\ nWrites = 0

Init0 == InitFrom(construct)

\* the constructed cpu after the host has set the pairs through PSW(), BC(),
\* DE() and HL() (as resetAndLoad does)
InitStack ==
    /\ \E b \in StackWords, d \in StackWords, h \in StackWords, p \in PswWords :
          InitFrom(writePair(writePair(writePair(writePair(
              construct, "PSW", p), "BC", b), "DE", d), "HL", h))
    /\ menu = "stack"

\* the same presets, for the runs over the pair menu
InitPair ==
    /\ \E b \in StackWords, d \in StackWords, h \in StackWords, p \in PswWords :
          InitFrom(writePair(writePair(writePair(writePair(
              construct, "PSW", p), "BC", b), "DE", d), "HL", h))
    /\ menu = "pair"

\* a cpu constructed in static, automatic or dynamic storage
InitAnyStorage ==
    /\ \E g \in StorageBytes, h \in BOOLEAN : InitFrom(constructOn(raw(g, h)))
    /\ menu = "ctl"

\* the constructed cpu after the host has set SP and PC
InitIrq ==
    /\ \E s \in IrqStackTops, p \in IrqSites :
          InitFrom([construct EXCEPT !.SP = s, !.PC = p])
    /\ menu = "irq"

Init == Init0 /\ menu = "ctl"
InitFlow == Init0 /\ menu = "flow"

\* the constructed cpu after the host has set A(), B() and flags()
InitAlu ==
    /\ \E a \in AluBytes, b \in AluOperands, f \in AluFlags :
          InitFrom(writeReg(writeReg(writeReg(construct, "A", a), "B", b), "F", f))
    /\ menu = "alu"

\* the constructed cpu after the host has set A(), B() and flags(), for the
\* runs over the single-operand menu
InitUnary ==
    /\ \E a \in AluBytes, b \in UnaryOperands, f \in UnaryFlags :
          InitFrom(writeReg(writeReg(writeReg(construct, "A", a), "B", b), "F", f))
    /\ menu = "unary"

(* -------------------------------- actions ------------------------------ *)

\* the host calls load(PC, code), where it has not put code yet
LoadCode ==
    /\ nCalls < MaxCalls
    /\ rd(ram, PC) = 0
    /\ \E code \in Menu(menu) :
        /\ PC + Len(code) <= RAM_SIZE
        /\ Apply(load(cur, PC, code))
        /\ lastArg' = <<PC, code>>
    /\ lastCall' = "load" /\ pre' = cur /\ nCalls' = nCalls + 1
    /\ UNCHANGED <<frame, pushed, overrun, menu, nWrites>>

\* the host loads its program before it makes any other call (main)
LoadProgram == nCalls = 0 /\ LoadCode

\* the host calls load(SP, data), where the stack is still empty
LoadData ==
    /\ nCalls < MaxCalls
    /\ rd(ram, SP) = 0 /\ rd(ram, SP + 1) = 0
    /\ \E data \in StackData :
        /\ SP + Len(data) <= RAM_SIZE
        /\ Apply(load(cur, SP, data))
        /\ lastArg' = <<SP, data>>
    /\ lastCall' = "load" /\ pre' = cur /\ nCalls' = nCalls + 1
    /\ UNCHANGED <<frame, pushed, overrun, menu, nWrites>>

\* the host calls interrupt(v)
Interrupt ==
    /\ nCalls < MaxCalls
    /\ \E v \in IrqOps :
        /\ Apply(interrupt(cur, v))
        /\ lastArg' = <<v>>
        /\ overrun' = IF interruptPending THEN <<interruptVector, v>>
                                          ELSE NoOverrun
    /\ lastCall' = "interrupt" /\ pre' = cur /\ nCalls' = nCalls + 1
    /\ UNCHANGED <<frame, pushed, menu, nWrites>>

\* the host calls step()
Step ==
    /\ nCalls < MaxCalls
    /\ \E env \in EnvBytes :
        LET t == step(cur, env)
            op == fetched(cur)
        IN  /\ Apply(t)
            /\ frame' = IF op >= 0 /\ enters(cur, op)
                        THEN [op |-> op,
                              src |-> IF interruptPending THEN "irq" ELSE "mem",
                              site |-> PC, sp |-> SP, spAfter |-> t.SP,
                              cells |-> <<rd(t.ram, t.SP), rd(t.ram, t.SP + 1)>>]
                        ELSE frame
            /\ pushed' = IF op \in PushOps
                         THEN [op |-> op,
                               val |-> pushOperand(cur, (op \div 16) % 4),
                               sp |-> SP, call |-> nCalls + 1]
                         ELSE pushed
    /\ lastCall' = "step" /\ lastArg' = <<>> /\ pre' = cur
    /\ nCalls' = nCalls + 1
    /\ UNCHANGED <<overrun, menu, nWrites>>

\* the host writes the flag byte: flags() = v
WriteFlags ==
    /\ nCalls < MaxCalls
    /\ \E v \in FlagSamples :
        /\ Apply(setFlags(cur, v))
        /\ lastArg' = <<"flags", v>>
    /\ lastCall' = "write" /\ pre' = cur /\ nCalls' = nCalls + 1
    /\ UNCHANGED <<frame, pushed, overrun, menu, nWrites>>

\* the host writes a register pair through its accessor
WritePair ==
    /\ nWrites < MaxWrites
    /\ \E P \in PairNames, v \in SampleWords :
        /\ Apply(writePair(cur, P, v))
        /\ lastArg' = <<P, v>>
    /\ lastCall' = "writePair" /\ pre' = cur /\ nWrites' = nWrites + 1
    /\ UNCHANGED <<frame, pushed, overrun, menu, nCalls>>

\* the host writes one 8-bit register through its accessor
WriteReg ==
    /\ nWrites < MaxWrites
    /\ \E r \in RegNames, v \in SampleBytes :
        /\ Apply(writeReg(cur, r, v))
        /\ lastArg' = <<r, v>>
    /\ lastCall' = "writeReg" /\ pre' = cur /\ nWrites' = nWrites + 1
    /\ UNCHANGED <<frame, pushed, overrun, menu, nCalls>>

Next == LoadCode \/ LoadData \/ Interrupt \/ Step
NextFlow == WriteFlags \/ LoadCode \/ Step
NextAcc == WritePair \/ WriteReg
NextStack == LoadCode \/ Step
NextIrq == LoadCode \/ Interrupt \/ Step
NextAlu == LoadProgram \/ Step

\* load, interrupt and step over the control menu
Spec == Init /\ [][Next]_vars
\* flags(), load and step over the control-flow menu
SpecFlow == InitFlow /\ [][NextFlow]_vars
\* accessor writes on a constructed cpu
SpecAcc == Init /\ [][NextAcc]_vars
\* load and step over the stack menu, from preset pairs
SpecStack == InitStack /\ [][NextStack]_vars
\* load and step over the pair menu, from preset pairs
SpecPair == InitPair /\ [][NextStack]_vars
\* load and step over the control menu, on a cpu constructed in any storage
SpecStorage == InitAnyStorage /\ [][NextStack]_vars
\* one program, then steps, from preset A(), B() and flags()
SpecIrq == InitIrq /\ [][NextIrq]_vars

SpecAlu == InitAlu /\ [][NextAlu]_vars
\* one program, then steps, over the single-operand menu
SpecUnary == InitUnary /\ [][NextAlu]_vars

(* ======================================================================= *)
(*                                 claims                                  *)
(* ======================================================================= *)

\* the last call was a step() that serviced the latched interrupt
serviced == lastCall = "step" /\ pre.interruptPending

\* the last call was a step() that fetched its opcode from memory
fromMemory == lastCall = "step" /\ ~pre.interruptPending /\ ~pre.halted

\* the registers, SP, PC, memory and halted are as before the last call
restUnchanged ==
    /\ PSW = pre.PSW /\ BC = pre.BC /\ DE = pre.DE /\ HL = pre.HL
    /\ SP = pre.SP /\ PC = pre.PC /\ ram = pre.ram /\ halted = pre.halted

\* the fixed bits of a flag byte: bit 1 set, bits 3 and 5 clear
fixedBitsOk(f) == bitAt(f, 1) = 1 /\ bitAt(f, 3) = 0 /\ bitAt(f, 5) = 0

C2_ServicedOnlyWhenEnabled ==
    (lastCall = "step" /\ pre.interruptPending /\ ~pre.interruptsEnabled)
    => \E env \in EnvBytes :
          cur = [step([pre EXCEPT !.interruptPending = FALSE], env)
                    EXCEPT !.interruptPending = TRUE]

(* ------------------------------- C3 ------------------------------------ *)
\* C3: a step() of a halted cpu with no interrupt latched changes nothing:
\* registers, flags, SP, PC, memory, interruptsEnabled, interruptPending,
\* interruptVector and halted are as before, and no port handler is called.
C3_HaltedStepIsNoOp ==
    (lastCall = "step" /\ pre.halted /\ ~pre.interruptPending) => cur = pre

\* a step() has just been taken by a halted cpu with nothing latched
C3_Witness == lastCall = "step" /\ pre.halted /\ ~pre.interruptPending

(* ------------------------------- C4 ------------------------------------ *)
\* C4: halted goes from false to true only in a step() that executes HLT
\* (0x76), and from true to false only in a step() that services a latched
\* interrupt; load(), interrupt() and every other step() leave it alone.
C4_HaltedTransitions ==
    /\ (halted /\ ~pre.halted) => (lastCall = "step" /\ fetched(pre) = 118)
    /\ (~halted /\ pre.halted) => (lastCall = "step" /\ pre.interruptPending)

\* a halted cpu has just been woken by the step() that serviced an interrupt
C4_Witness == serviced /\ pre.halted /\ ~halted

(* ------------------------------- C5 ------------------------------------ *)
\* C5: right after a step() that services a latched interrupt,
\* interruptPending, halted and interruptsEnabled are all false, whatever the
\* latched opcode.
C5_AfterService ==
    serviced => (~interruptPending /\ ~halted /\ ~interruptsEnabled)

C7_InterruptIgnoredWhenDisabled ==
    /\ (lastCall = "interrupt" /\ ~pre.interruptsEnabled) => cur = pre
    /\ (lastCall = "step" /\ ~pre.interruptsEnabled)
       => (IF pre.halted THEN restUnchanged ELSE fetched(pre) = rd(pre.ram, pre.PC))

(* ------------------------------- C8 ------------------------------------ *)
\* C8: after the pair accessor write P := v, the first-named register of P
\* reads v >> 8 and the second-named reads v & 0xFF; and after a write of x
\* to one register, the pair value has x in the matching half (high for the
\* first-named, low for the second-named) and its other half unchanged.
C8_PairHalves ==
    /\ lastCall = "writePair"
       => /\ readReg(cur, firstOf(lastArg[1])) = lastArg[2] \div 256
          /\ readReg(cur, secondOf(lastArg[1])) = lastArg[2] % 256
    /\ lastCall = "writeReg"
       => \A P \in PairNames :
            /\ firstOf(P) = lastArg[1]
               => readPair(cur, P) = lastArg[2] * 256 + (readPair(pre, P) % 256)
            /\ secondOf(P) = lastArg[1]
               => readPair(cur, P) = (readPair(pre, P) \div 256) * 256 + lastArg[2]

(* ------------------------------- C9 ------------------------------------ *)
\* C9: a step() that fetches from memory a conditional jump or conditional
\* call whose condition is false leaves PC at the old PC + 3 (mod 2^16) and
\* leaves SP, the registers, the flags and memory unchanged.
C9_UntakenConsumesOperand ==
    (/\ fromMemory
     /\ fetched(pre) \in JccOps \cup CccOps
     /\ ~cond(pre, (fetched(pre) \div 8) % 8))
    => /\ PC = (pre.PC + 3) % 65536
       /\ PSW = pre.PSW /\ BC = pre.BC /\ DE = pre.DE /\ HL = pre.HL
       /\ SP = pre.SP /\ ram = pre.ram

(* ------------------------------- C10 ----------------------------------- *)
\* C10: a step() that fetches at address p a CALL, or a conditional call
\* whose condition is true, with operand addr, sets SP := SP - 2, leaves the
\* return address p + 3 on the stack and sets PC := addr; and a RET fetched
\* later with SP and the stack top as that call left them sets PC := p + 3
\* and SP to its value before the call.
C10_CallPushesReturn ==
    /\ (/\ fromMemory
        /\ fetched(pre) \in CallOps \cup CccOps
        /\ enters(pre, fetched(pre)))
       => /\ SP = (pre.SP - 2) % 65536
          /\ swapBytes(rd16(ram, SP)) = (pre.PC + 3) % 65536
          /\ PC = rd16(pre.ram, (pre.PC + 1) % 65536)
    /\ (/\ fromMemory
        /\ fetched(pre) \in RetOps
        /\ frame.src = "mem" /\ frame.op \in CallOps \cup CccOps
        /\ pre.SP = frame.spAfter
        /\ <<rd(pre.ram, pre.SP), rd(pre.ram, pre.SP + 1)>> = frame.cells)
       => /\ PC = (frame.site + 3) % 65536
          /\ SP = frame.sp

(* ------------------------------- C11 ----------------------------------- *)
\* a flag byte with its fixed bits forced: bit 1 set, bits 3 and 5 clear
forced(f) == bitOr(bitAnd(f, 215), 2)

\* the last call was a step() that fetched a POP, and the call before it was
\* a step() that executed a PUSH
popAfterPush ==
    /\ fromMemory /\ fetched(pre) \in PopOps
    /\ pushed.op \in PushOps /\ pushed.call = nCalls - 1

\* C11: a PUSH of a pair holding v followed immediately by a POP into a pair
\* w leaves w = v and SP as it was before the PUSH; when w is PSW, A is the
\* A of v and F is the F of v with bit 1 set and bits 3 and 5 cleared.
C11_PushPopRoundTrip ==
    popAfterPush
    => LET w == popTarget((fetched(pre) \div 16) % 4)
           asPsw == writePair(cur, "PSW", pushed.val)
       IN  /\ SP = pushed.sp
           /\ w # "PSW" => readPair(cur, w) = pushed.val
           /\ w = "PSW" => /\ readReg(cur, "A") = readReg(asPsw, "A")
                           /\ readReg(cur, "F") = forced(readReg(asPsw, "F"))

\* PUSH PSW; POP PSW has just run on a PSW whose F had bits 3 and 5 set
C11_Witness ==
    /\ popAfterPush /\ fetched(pre) = 241 /\ pushed.op = 245
    /\ pushed.val = 65445

(* ------------------------------- C12 ----------------------------------- *)
\* the 16-bit operand stored low byte first at address a of memory m
operandAt(m, a) == rd(m, a) + 256 * rd(m, a + 1)

\* the last call was the step() of the PUSH H in LXI SP, s; LXI H, v; PUSH H:
\* the two LXI lie just before the PUSH, and SP and HL() hold their operands
afterLxiLxiPush ==
    /\ fromMemory /\ fetched(pre) = 229 /\ pre.PC >= 6
    /\ rd(pre.ram, pre.PC - 6) = 49 /\ rd(pre.ram, pre.PC - 3) = 33
    /\ pre.SP = operandAt(pre.ram, pre.PC - 5)
    /\ readPair(pre, "HL") = operandAt(pre.ram, pre.PC - 2)

\* C12: after LXI SP, s; LXI H, v; PUSH H the stack holds v low byte first:
\* SP = s - 2, memory[s - 2] = v & 0xFF, memory[s - 1] = v >> 8; and the
\* POP D that follows leaves DE = v and SP = s.
C12_StackLittleEndian ==
    /\ afterLxiLxiPush
       => LET s == operandAt(pre.ram, pre.PC - 5)
              v == operandAt(pre.ram, pre.PC - 2)
          IN  /\ SP = (s - 2) % 65536
              /\ rd(ram, (s - 2) % 65536) = v % 256
              /\ rd(ram, (s - 1) % 65536) = v \div 256
    /\ (popAfterPush /\ fetched(pre) = 209 /\ pushed.op = 229)
       => (readPair(cur, "DE") = pushed.val /\ SP = pushed.sp)

(* --------------------------- C13 .. C18: arithmetic -------------------- *)
\* bit f of the flag byte of s
flagOf(s, f) == bitAt(readReg(s, "F"), f)

\* the operand of the accumulator instruction s is about to fetch: B for the
\* register forms of the menu, the byte after the opcode for the immediates
operandOf(s) ==
    IF fetched(s) \in AluImmOps THEN rd(s.ram, (s.PC + 1) % 65536)
    ELSE readReg(s, "B")

\* the last call was a step() that fetched one of ops from memory
executed(ops) == fromMemory /\ fetched(pre) \in ops

(* ------------------------------- C13 ----------------------------------- *)
\* C13: CMP r and CPI r leave A unchanged, set Z iff A = r and set the carry
\* flag iff A < r (unsigned), for every A and r, r = 0 included.
C13_Compare ==
    executed({184, 254})
    => /\ readReg(cur, "A") = readReg(pre, "A")
       /\ (flagOf(cur, zero) = 1) <=> (readReg(pre, "A") = operandOf(pre))
       /\ (flagOf(cur, carry) = 1) <=> (readReg(pre, "A") < operandOf(pre))

(* ------------------------------- C14 ----------------------------------- *)
\* C14: SUB v and SUI v set A to (A - v) mod 256 and set the carry flag iff
\* v > A before the instruction (a borrow).
C14_SubBorrow ==
    executed({144, 214})
    => /\ readReg(cur, "A") = (readReg(pre, "A") - operandOf(pre)) % 256
       /\ (flagOf(cur, carry) = 1) <=> (operandOf(pre) > readReg(pre, "A"))

(* ------------------------------- C15 ----------------------------------- *)
\* C15: SBB v and SBI v with incoming carry c set A to (A - v - c) mod 256
\* and set the carry flag iff v + c > A.
C15_SubWithBorrow ==
    executed({152, 222})
    => LET c == flagOf(pre, carry)
       IN  /\ readReg(cur, "A") = (readReg(pre, "A") - operandOf(pre) - c) % 256
           /\ (flagOf(cur, carry) = 1) <=> (operandOf(pre) + c > readReg(pre, "A"))

(* ------------------------------- C16 ----------------------------------- *)
\* C16: ADD/ADI (cin = 0) and ADC/ACI (cin = carry) set A to
\* (A + v + cin) mod 256, the carry flag iff A + v + cin > 255, and the
\* auxiliary carry iff (A & 15) + (v & 15) + cin > 15.
C16_AddCarries ==
    executed({128, 198, 136, 206})
    => LET cin == IF fetched(pre) \in {136, 206} THEN flagOf(pre, carry) ELSE 0
           a == readReg(pre, "A")
           v == operandOf(pre)
       IN  /\ readReg(cur, "A") = (a + v + cin) % 256
           /\ (flagOf(cur, carry) = 1) <=> (a + v + cin > 255)
           /\ (flagOf(cur, auxCarry) = 1) <=> ((a % 16) + (v % 16) + cin > 15)

(* ------------------------------- C17 ----------------------------------- *)
\* both nibbles of a are decimal digits
isBcd(a) == a % 16 <= 9 /\ a \div 16 <= 9

\* the last call was a step() that fetched DAA with A already BCD and the
\* carry and auxiliary carry flags clear
daaOnBcd ==
    /\ executed({39}) /\ isBcd(readReg(pre, "A"))
    /\ flagOf(pre, carry) = 0 /\ flagOf(pre, auxCarry) = 0

\* C17: DAA on an accumulator that is already BCD, with C = 0 and AC = 0,
\* leaves A unchanged and C = 0 (and AC = 0), and one more DAA changes
\* neither A nor any flag.
C17_DaaIdempotent ==
    daaOnBcd
    => /\ readReg(cur, "A") = readReg(pre, "A")
       /\ flagOf(cur, carry) = 0 /\ flagOf(cur, auxCarry) = 0
       /\ daa(cur).PSW = PSW

\* the second DAA of DAA; DAA has just run on a BCD accumulator with S, Z, P
\* set by the first: nothing but PC has changed
C17_Witness ==
    /\ daaOnBcd /\ pre.PC = 1 /\ rd(pre.ram, 0) = 39
    /\ readReg(pre, "A") = 153 /\ PSW = pre.PSW

(* ------------------------------- C18 ----------------------------------- *)
\* the number of 1 bits of r
popcount(r) == Cardinality({k \in 0 .. 7 : bitAt(r, k) = 1})

\* the 8-bit result of the instruction the last step() executed: A - operand
\* for CMP and CPI, the new A for every other instruction of the menu
resultOf ==
    IF fetched(pre) \in {184, 254}
    THEN (readReg(pre, "A") - operandOf(pre)) % 256
    ELSE readReg(cur, "A")

\* C18: after an instruction that updates S, Z and P (ADD .. CMP and their
\* immediate forms, INR, DCR, DAA) with 8-bit result r: S = bit 7 of r,
\* Z = 1 iff r = 0, P = 1 iff r has an even number of 1 bits.
C18_SignZeroParity ==
    executed(AluRegOps \cup AluImmOps \cup {60, 61, 39})
    => /\ flagOf(cur, sign) = bitAt(resultOf, 7)
       /\ (flagOf(cur, zero) = 1) <=> (resultOf = 0)
       /\ (flagOf(cur, parity) = 1) <=> (popcount(resultOf) % 2 = 0)

\* an XRA B has just produced a nonzero result with bit 7 set and an even
\* number of 1 bits from flags that had S, Z and P clear
C18_Witness ==
    /\ executed({168}) /\ readReg(cur, "A") = 255
    /\ flagOf(pre, sign) = 0 /\ flagOf(pre, parity) = 0
    /\ flagOf(cur, sign) = 1 /\ flagOf(cur, parity) = 1

(* ------------------------------- C19 ----------------------------------- *)
\* C19: every undocumented opcode does exactly what its documented
\* counterpart does in the same state: 0x08 .. 0x38 what NOP does, 0xCB what
\* JMP does (PC := the 16-bit operand), 0xD9 what RET does, and 0xDD, 0xED,
\* 0xFD what CALL does.
C19_UndocumentedAliases ==
    executed(UndocumentedOps)
    => \E env \in EnvBytes :
          cur = exec(get8(pre).st, documented(fetched(pre)), env)

(* ------------------------------- C20 ----------------------------------- *)
\* the pair an LXI opcode names
lxiPair(op) == CASE op = 1 -> "BC" [] op = 17 -> "DE" [] op = 33 -> "HL"

\* C20: LXI rp, d16 (opcode, low byte, high byte) sets the pair to d16, its
\* first-named register to d16 >> 8 and its second-named register to
\* d16 & 0xFF (SP := d16 for LXI SP), advances PC by 3 and changes no flag.
C20_LxiLoadsPair ==
    executed({1, 17, 33, 49})
    => LET d16 == operandAt(pre.ram, (pre.PC + 1) % 65536)
       IN  /\ PC = (pre.PC + 3) % 65536
           /\ readReg(cur, "F") = readReg(pre, "F")
           /\ fetched(pre) = 49 => SP = d16
           /\ fetched(pre) # 49
              => LET P == lxiPair(fetched(pre))
                 IN  /\ readPair(cur, P) = d16
                     /\ readReg(cur, firstOf(P)) = d16 \div 256
                     /\ readReg(cur, secondOf(P)) = d16 % 256

(* ------------------------------- C21 ----------------------------------- *)
\* C21: SHLD a16 stores L at memory[a] and H at memory[a + 1]; LHLD a16
\* loads L from memory[a] and H from memory[a + 1]; both advance PC by 3 and
\* change no flag.
C21_ShldLhld ==
    /\ executed({34})
       => LET a == operandAt(pre.ram, (pre.PC + 1) % 65536)
          IN  /\ rd(ram, a) = readReg(pre, "L")
              /\ rd(ram, (a + 1) % 65536) = readReg(pre, "H")
              /\ PC = (pre.PC + 3) % 65536
              /\ readReg(cur, "F") = readReg(pre, "F")
    /\ executed({42})
       => LET a == operandAt(pre.ram, (pre.PC + 1) % 65536)
          IN  /\ readReg(cur, "L") = rd(pre.ram, a)
              /\ readReg(cur, "H") = rd(pre.ram, (a + 1) % 65536)
              /\ PC = (pre.PC + 3) % 65536
              /\ readReg(cur, "F") = readReg(pre, "F")

(* ------------------------------- C22 ----------------------------------- *)
\* the last call was the first step() made on the cpu: no call before it, or
\* only the load of the program at address 0
firstStep ==
    lastCall = "step" /\ (nCalls = 1 \/ (nCalls = 2 /\ rd(pre.ram, 0) # 0))

\* C22: a newly constructed cpu has A, B, C, D, E, H, L = 0, F = 0x02,
\* SP = 0, PC = 0, interruptsEnabled, interruptPending and halted false, and
\* its first step() executes the instruction at address 0.
C22_InitialState ==
    /\ lastCall = "none"
       => /\ \A r \in RegNames \ {"F"} : readReg(cur, r) = 0
          /\ readReg(cur, "F") = 2
          /\ SP = 0 /\ PC = 0
          /\ ~interruptsEnabled /\ ~interruptPending /\ ~halted
    /\ firstStep => fetched(pre) = rd(pre.ram, 0)

(* ------------------------------- C23 ----------------------------------- *)
\* s with the byte that follows address 0xFFFF being the byte at address 0,
\* as it is when 16-bit accesses wrap
wrapped(s) == [s EXCEPT !.ram = wr(@, RAM_SIZE, rd(@, 0))]

\* the registers, SP and PC of s
regsOf(s) == <<s.PSW, s.BC, s.DE, s.HL, s.SP, s.PC>>

\* C23: step() accesses no byte outside 0 .. 0xFFFF, and a 16-bit read at
\* address 0xFFFF takes its second byte from address 0: the registers, SP
\* and PC after a step() are those the step produces when the byte that
\* follows 0xFFFF is the byte at 0.
C23_AccessesWrap ==
    /\ DOMAIN ram \subseteq 0 .. (RAM_SIZE - 1)
    /\ fromMemory
       => \E env \in EnvBytes : regsOf(cur) = regsOf(step(wrapped(pre), env))

(* ------------------------------- C24 ----------------------------------- *)
\* C24: after any write through the accessors (a pair, PSW() included, or a
\* single register, flags() included) the flag byte has bit 1 = 1 and bits
\* 3 and 5 = 0.
C24_AccessorWritesKeepFixedBits ==
    lastCall \in {"writePair", "writeReg"} => fixedBitsOk(readReg(cur, "F"))

(* --------------------- C25, C26: INR and DCR --------------------------- *)
\* the 8-bit operand of the INR or DCR opcode op in state s: B, A, or the
\* byte at HL
unaryOperand(s, op) ==
    CASE op \in {4, 5} -> readReg(s, "B")
      [] op \in {60, 61} -> readReg(s, "A")
      [] op \in {52, 53} -> rd(s.ram, readPair(s, "HL"))

\* S, Z and P of s are those of the 8-bit value r
szpFrom(s, r) ==
    /\ flagOf(s, sign) = bitAt(r, 7)
    /\ (flagOf(s, zero) = 1) <=> (r = 0)
    /\ (flagOf(s, parity) = 1) <=> (popcount(r) % 2 = 0)

(* ------------------------------- C25 ----------------------------------- *)
\* C25: INR r sets r to (r + 1) & 0xFF, AC to ((old r & 0x0F) = 0x0F), S, Z
\* and P from the new r, and leaves the carry flag unchanged.
C25_Inr ==
    executed(IncOps)
    => LET old == unaryOperand(pre, fetched(pre))
           new == unaryOperand(cur, fetched(pre))
       IN  /\ new = (old + 1) % 256
           /\ (flagOf(cur, auxCarry) = 1) <=> (old % 16 = 15)
           /\ szpFrom(cur, new)
           /\ flagOf(cur, carry) = flagOf(pre, carry)
           /\ PC = (pre.PC + 1) % 65536

\* the INR A of MVI A, 0FFh; INR A has just run: A = 0, Z = 1, S = 0,
\* AC = 1, C = 0, PC = 3
C25_Witness ==
    /\ executed({60}) /\ pre.PC = 2 /\ rd(pre.ram, 0) = 62
    /\ readReg(pre, "A") = 255 /\ readReg(cur, "A") = 0
    /\ flagOf(pre, auxCarry) = 0 /\ flagOf(cur, auxCarry) = 1
    /\ flagOf(cur, zero) = 1 /\ flagOf(cur, sign) = 0
    /\ flagOf(cur, carry) = 0 /\ PC = 3

(* ------------------------------- C26 ----------------------------------- *)
\* C26: DCR r sets r to (r - 1) & 0xFF, AC to ((old r & 0x0F) # 0), S, Z and
\* P from the new r, and leaves the carry flag unchanged.
C26_Dcr ==
    executed(DecOps)
    => LET old == unaryOperand(pre, fetched(pre))
           new == unaryOperand(cur, fetched(pre))
       IN  /\ new = (old - 1) % 256
           /\ (flagOf(cur, auxCarry) = 1) <=> (old % 16 # 0)
           /\ szpFrom(cur, new)
           /\ flagOf(cur, carry) = flagOf(pre, carry)

(* ------------------------------- C28 ----------------------------------- *)
\* C28: RAL sets A to ((A << 1) & 0xFF) | old C and C to the old bit 7 of A;
\* RAR sets A to (A >> 1) | (old C << 7) and C to the old bit 0 of A.
C28_RotateThroughCarry ==
    /\ executed({23})
       => /\ readReg(cur, "A")
               = ((readReg(pre, "A") * 2) % 256) + flagOf(pre, carry)
          /\ flagOf(cur, carry) = bitAt(readReg(pre, "A"), 7)
    /\ executed({31})
       => /\ readReg(cur, "A")
               = (readReg(pre, "A") \div 2) + 128 * flagOf(pre, carry)
          /\ flagOf(cur, carry) = bitAt(readReg(pre, "A"), 0)

(* ------------------------------- C29 ----------------------------------- *)
\* C29: DAA adds 6 to A when (A & 0x0F) > 9 or AC = 1, and AC becomes 1
\* exactly when that addition carried out of bit 3; then it adds 0x60 and
\* sets C when the high nibble of A > 9 or C = 1; S, Z and P are those of
\* the final A; a carry that was set stays set.
C29_Daa ==
    executed({39})
    => LET a0 == readReg(pre, "A")
           lowFix == a0 % 16 > 9 \/ flagOf(pre, auxCarry) = 1
           a1 == IF lowFix THEN (a0 + 6) % 256 ELSE a0
           highFix == a1 \div 16 > 9 \/ flagOf(pre, carry) = 1
           a2 == IF highFix THEN (a1 + 96) % 256 ELSE a1
       IN  /\ readReg(cur, "A") = a2
           /\ (flagOf(cur, auxCarry) = 1) <=> (lowFix /\ (a0 % 16) + 6 > 15)
           /\ (flagOf(cur, carry) = 1) <=> highFix
           /\ szpFrom(cur, a2)


(* ------------------------------- C27 ----------------------------------- *)
\* the value of pair P of s with its first-named register as the high byte
pairValue(s, P) == readReg(s, firstOf(P)) * 256 + readReg(s, secondOf(P))

\* the operand of the DAD opcode op in s: BC, DE, HL valued that way, or SP
dadOperand(s, op) ==
    CASE op = 9 -> pairValue(s, "BC") [] op = 25 -> pairValue(s, "DE")
      [] op = 41 -> pairValue(s, "HL") [] op = 57 -> s.SP

\* C27: DAD rp, with HL = H * 256 + L and the operand pair valued the same
\* way (SP as it is), sets HL to (HL + rp) mod 2^16 and the carry flag to
\* (HL + rp) > 0xFFFF, and leaves S, Z, AC, P and every other register as
\* they were.
C27_Dad ==
    executed({9, 25, 41, 57})
    => LET sum == pairValue(pre, "HL") + dadOperand(pre, fetched(pre))
       IN  /\ pairValue(cur, "HL") = sum % 65536
           /\ (flagOf(cur, carry) = 1) <=> (sum > 65535)
           /\ \A f \in {sign, zero, auxCarry, parity} :
                 flagOf(cur, f) = flagOf(pre, f)
           /\ readReg(cur, "A") = readReg(pre, "A")
           /\ BC = pre.BC /\ DE = pre.DE /\ SP = pre.SP

(* ------------------------------- C30 ----------------------------------- *)
\* s is about to execute the instruction that follows an LXI H,a whose
\* operand a is what HL() holds
afterLxiH(s) ==
    /\ s.PC >= 3
    /\ rd(s.ram, s.PC - 3) = 33
    /\ readPair(s, "HL") = operandAt(s.ram, s.PC - 2)

\* C30: after LXI H,a the instruction PCHL sets PC = a and the instruction
\* SPHL sets SP = a, and both leave HL and the flags as they were.
C30_PchlSphl ==
    executed({233, 249}) /\ afterLxiH(pre)
    => LET a == operandAt(pre.ram, pre.PC - 2)
       IN  /\ fetched(pre) = 233 => PC = a
           /\ fetched(pre) = 249 => SP = a
           /\ HL = pre.HL
           /\ readReg(cur, "F") = readReg(pre, "F")


(* ------------------------------- C31 ----------------------------------- *)
\* what step() does after the exec of a latched opcode
afterService(s) == [s EXCEPT !.interruptPending = FALSE, !.halted = FALSE]

\* C31: a step() that services a latched interrupt executes the latched
\* opcode on the state as it is, PC not advanced for the opcode: a latched
\* NOP leaves PC, SP, the registers and memory unchanged, a latched EI or HLT
\* leaves PC unchanged, and the next step() fetches the instruction at the PC
\* the servicing step left.
C31_ServiceDoesNotFetch ==
    serviced
    => /\ \E env \in EnvBytes :
             cur = afterService(exec(pre, pre.interruptVector, env))
       /\ pre.interruptVector = 0
          => (regsOf(cur) = regsOf(pre) /\ ram = pre.ram)
       /\ pre.interruptVector \in {0, 251, 118} => PC = pre.PC
       /\ fetched(cur) = rd(ram, PC)

\* a latched NOP has just been serviced in front of an instruction at PC
C31_Witness ==
    serviced /\ pre.interruptVector = 0 /\ rd(ram, PC) # 0


(* ------------------------------- C32 ----------------------------------- *)
\* the RST opcodes, and the n of RST n
RstOps == {199, 207, 215, 223, 231, 239, 247, 255}
rstNumber(op) == (op \div 8) % 8

\* the last call was a step() that fetched a RET while SP and the two bytes
\* at SP were as the servicing of a latched RST left them
retFromService ==
    /\ fromMemory /\ fetched(pre) \in RetOps
    /\ frame.src = "irq" /\ frame.op \in RstOps
    /\ frame.sp >= 2
    /\ pre.SP = frame.spAfter
    /\ <<rd(pre.ram, pre.SP), rd(pre.ram, pre.SP + 1)>> = frame.cells

\* C32: the step() that services a latched RST n while PC = p and SP = s,
\* 2 <= s <= 0xFFFF, sets PC = 8n and SP = s - 2; a RET executed later with
\* SP and the stack top as that step left them sets PC = p and SP = s, and
\* the next step() fetches the instruction at p.
C32_RstServiceReturns ==
    /\ (serviced /\ pre.interruptVector \in RstOps /\ pre.SP >= 2)
       => /\ PC = 8 * rstNumber(pre.interruptVector)
          /\ SP = pre.SP - 2
    /\ retFromService
       => /\ PC = frame.site /\ SP = frame.sp
          /\ fetched(cur) = rd(ram, frame.site)

\* a RET has just returned from the service of a RST latched at 0100h
C32_Witness == retFromService /\ frame.site = 256 /\ PC = 256


(* ------------------------------- C33 ----------------------------------- *)
\* the last call was the step() that serviced a latch made by interrupt(op2)
\* over a still pending interrupt(op1): overrun = <<op1, op2>>
servicedOverrun == serviced /\ overrun # NoOverrun

====
